---- MODULE Spec2Model ----
(***************************************************************************)
(* The freelan router (libs/freelan/src/router.cpp): a port registry, a    *)
(* lazily compiled route table, the destination selector and the dispatch  *)
(* of a frame to the selected port's write capability.                     *)
(***************************************************************************)
EXTENDS Integers, Sequences, FiniteSets, TLC

(***************************************************************************)
(* Bounds of the model.                                                    *)
(***************************************************************************)
\* Port indices are 1..MaxPorts.
MaxPorts == 3
\* Number of router::async_write calls followed through their completion.
MaxCalls == 2

PortIndices == 1..MaxPorts
Groups == {1, 2}

\* The invalid iterator m_ports.end(); no port has this index.
End == 0

(***************************************************************************)
(* Addresses and networks.  An address is a family (4 or 6) and its words  *)
(* in network order: four octets for IPv4, eight 16-bit groups for IPv6.   *)
(***************************************************************************)
NumWords(fam) == IF fam = 4 THEN 4 ELSE 8
WordBits(fam) == IF fam = 4 THEN 8 ELSE 16

Address(fam, words) == [fam |-> fam, addr |-> words]
Network(fam, words, len) == [fam |-> fam, addr |-> words, len |-> len]

Min(a, b) == IF a < b THEN a ELSE b
Max(a, b) == IF a < b THEN b ELSE a

\* Number of bits of word i (1-based) covered by a prefix of length len.
CoveredBits(len, i, wb) == Min(Max(len - (i - 1) * wb, 0), wb)

\* has_address(network, address): same family, and the address equals the
\* network's address under the prefix mask.
has_address(net, a) ==
    /\ net.fam = a.fam
    /\ \A i \in 1..NumWords(net.fam) :
          LET wb == WordBits(net.fam)
              drop == 2 ^ (wb - CoveredBits(net.len, i, wb))
          IN  (net.addr[i] \div drop) = (a.addr[i] \div drop)

\* Lexicographic order of two word sequences of the same length.
WordsLess(s, t) ==
    \E i \in 1..Len(s) :
        /\ s[i] < t[i]
        /\ \A j \in 1..(i - 1) : s[j] = t[j]

\* operator< of network addresses: family, then numeric address, then
\* descending prefix length.
NetworkLess(a, b) ==
    IF a.fam # b.fam THEN a.fam < b.fam
    ELSE IF a.addr # b.addr THEN WordsLess(a.addr, b.addr)
    ELSE a.len > b.len

(***************************************************************************)
(* The networks, ports and frames the model draws its inputs from.         *)
(***************************************************************************)
Net10_8    == Network(4, <<10, 0, 0, 0>>, 8)
Net10_0_0  == Network(4, <<10, 0, 0, 0>>, 24)
Net10_0_1  == Network(4, <<10, 0, 1, 0>>, 24)
Net6Any    == Network(6, <<0, 0, 0, 0, 0, 0, 0, 0>>, 0)

\* The local routes a port can advertise.
RouteChoices ==
    { <<Net10_8>>, <<Net10_0_1>>, <<Net10_0_0, Net6Any>> }

\* router::port_type: a group and the local routes (the write capability is
\* modelled by the variables invocations and done).
PortType == [group : Groups, local_routes : RouteChoices]

Zeros(n) == [i \in 1..n |-> 0]

\* An IPv4 packet: version 4, header length 5 words, destination at octets
\* 16..19 (RFC 791).
IPv4Frame(dst) == <<69>> \o Zeros(15) \o dst
\* An IPv6 packet: version 6, destination at octets 24..39 (RFC 8200).
IPv6Frame(dst) == <<96>> \o Zeros(23) \o dst

Dst10_0_0_5 == <<10, 0, 0, 5>>
Dst10_0_1_5 == <<10, 0, 1, 5>>
\* 2001:db8:1::1
Dst6Bytes == <<32, 1, 13, 184, 0, 1, 0, 0, 0, 0, 0, 0, 0, 0, 0, 1>>

\* The frames the callers submit: two IPv4 packets, an IPv6 packet, a
\* truncated IPv4 header and the empty buffer.  A frame is named by its
\* position in this table.
FrameTable ==
    << IPv4Frame(Dst10_0_0_5),
       IPv4Frame(Dst10_0_1_5),
       IPv6Frame(Dst6Bytes),
       SubSeq(IPv4Frame(Dst10_0_0_5), 1, 12),
       <<>> >>

Frames == 1..Len(FrameTable)

(***************************************************************************)
(* Frame parsers (asiotap ipv4/ipv6 filters).  A helper is kept in the     *)
(* filter after a successful parse until clear_last_helper().              *)
(***************************************************************************)
NoHelper == [set |-> FALSE, destination |-> <<>>]
Helper(words) == [set |-> TRUE, destination |-> words]

IPv4Parses(data) ==
    /\ Len(data) >= 20
    /\ data[1] \div 16 = 4
    /\ data[1] % 16 >= 5
    /\ (data[1] % 16) * 4 <= Len(data)

IPv6Parses(data) ==
    /\ Len(data) >= 40
    /\ data[1] \div 16 = 6

\* m_ipv4_filter.parse(data): a frame that parses leaves its helper; one that
\* does not leaves the filter as it was.
ipv4_parse(filter, data) ==
    IF IPv4Parses(data)
    THEN Helper([i \in 1..4 |-> data[16 + i]])
    ELSE filter

ipv6_parse(filter, data) ==
    IF IPv6Parses(data)
    THEN Helper([i \in 1..8 |-> data[23 + 2 * i] * 256 + data[24 + 2 * i]])
    ELSE filter

(***************************************************************************)
(* The route table: an ordered multimap network -> port index, held as the *)
(* sequence of its entries in iteration order.                             *)
(***************************************************************************)
NoRoutes == [valid |-> FALSE, table |-> <<>>]
Compiled(table) == [valid |-> TRUE, table |-> table]

\* The insertion recording the index after the owner's as the route's port.
MultimapInsertShifted(table, entry) ==
    LET n == Cardinality({ k \in 1..Len(table) :
                             ~ NetworkLess(entry[1], table[k][1]) })
    IN  SubSeq(table, 1, n) \o <<<<entry[1], entry[2] + 1>>>>
            \o SubSeq(table, n + 1, Len(table))

\* std::multimap::insert: after every entry whose key is not greater.
MultimapInsert(table, entry) ==
    LET n == Cardinality({ k \in 1..Len(table) :
                             ~ NetworkLess(entry[1], table[k][1]) })
    IN  SubSeq(table, 1, n) \o <<entry>> \o SubSeq(table, n + 1, Len(table))

RECURSIVE InsertLocalRoutes(_, _, _, _)
InsertLocalRoutes(table, local_routes, index, j) ==
    IF j > Len(local_routes) THEN table
    ELSE InsertLocalRoutes(MultimapInsert(table, <<local_routes[j], index>>),
                           local_routes, index, j + 1)

RECURSIVE CompileFrom(_, _, _)
CompileFrom(ports, index, table) ==
    IF index > MaxPorts THEN table
    ELSE IF index \in DOMAIN ports
         THEN CompileFrom(ports, index + 1,
                          InsertLocalRoutes(table, ports[index].local_routes, index, 1))
         ELSE CompileFrom(ports, index + 1, table)

\* The loop of router::routes(): every port in index order, every local
\* route of the port in order.
CompileRoutes(ports) == CompileFrom(ports, 1, <<>>)

\* routes() recompiling on every call, whatever the cache holds.
RecompilesAlways(cache) == TRUE

\* The test of line 139, !m_routes: whether routes() recompiles the table.
Recompiles(cache) == ~ cache.valid

\* routes() with its test inverted: an invalidated cache is returned as it is.
routes_inverted(ports, cache) ==
    IF cache.valid THEN Compiled(CompileRoutes(ports)) ELSE cache

\* routes() handing out the recompiled table without keeping it as the cache.
routes_discarded(ports, cache) ==
    IF Recompiles(cache)
    THEN [valid |-> FALSE, table |-> CompileRoutes(ports)]
    ELSE cache

\* router::routes(): the cached table, recompiled when it was invalidated.
routes(ports, cache) ==
    IF Recompiles(cache) THEN Compiled(CompileRoutes(ports)) ELSE cache

(***************************************************************************)
(* The destination selector.                                               *)
(***************************************************************************)
\* Values a read of m_ports.end()->second.group() can produce.
JunkGroups == Groups \cup {0}

\* The gate without the configuration: only the groups decide.
PolicyGateGroupsOnly(client_routing_enabled, source_group, candidate_group) ==
    source_group # candidate_group

\* The gate without its condition: every matching candidate is accepted.
PolicyGateAlways(client_routing_enabled, source_group, candidate_group) == TRUE

\* The gate with the flag negated and conjoined.
PolicyGateNegated(client_routing_enabled, source_group, candidate_group) ==
    (~ client_routing_enabled) /\ (source_group # candidate_group)

\* The condition of router.cpp line 125.
PolicyGate(client_routing_enabled, source_group, candidate_group) ==
    client_routing_enabled \/ (source_group # candidate_group)

NoTarget == [target |-> End, route |-> <<>>]

\* The loop stopping at the first matching route whose owner the gate refuses.
RECURSIVE ScanRoutesTerminal(_, _, _, _, _, _, _)
ScanRoutesTerminal(ports, table, cre, source_group, dest, junk, i) ==
    IF i > Len(table) THEN NoTarget
    ELSE IF has_address(table[i][1], dest)
         THEN LET candidate == table[i][2]
                  port_entry == IF candidate \in DOMAIN ports THEN candidate ELSE End
                  group == IF port_entry # End THEN ports[candidate].group ELSE junk
              IN  IF PolicyGate(cre, source_group, group)
                  THEN [target |-> port_entry, route |-> <<table[i]>>]
                  ELSE NoTarget
         ELSE ScanRoutesTerminal(ports, table, cre, source_group, dest, junk, i + 1)

\* The loop of get_target_for<AddressType>, from entry i of the table on.
\* m_ports.find() of an index that is not registered yields end(); its group
\* is whatever the read produces (junk), and returning it is returning end().
RECURSIVE ScanRoutes(_, _, _, _, _, _, _)
ScanRoutes(ports, table, cre, source_group, dest, junk, i) ==
    IF i > Len(table) THEN NoTarget
    ELSE IF has_address(table[i][1], dest)
         THEN LET candidate == table[i][2]
                  port_entry == IF candidate \in DOMAIN ports THEN candidate ELSE End
                  group == IF port_entry # End THEN ports[candidate].group ELSE junk
              IN  IF PolicyGate(cre, source_group, group)
                  THEN [target |-> port_entry, route |-> <<table[i]>>]
                  ELSE ScanRoutes(ports, table, cre, source_group, dest, junk, i + 1)
         ELSE ScanRoutes(ports, table, cre, source_group, dest, junk, i + 1)

\* The selector scanning the table as it stood before routes() ran: the call
\* that compiles the table scans the empty one.
get_target_for_address_precompile(ports, cache, cre, index, dest, junk) ==
    IF index \in DOMAIN ports
    THEN LET compiled == routes(ports, cache)
             found == ScanRoutes(ports, cache.table, cre, ports[index].group,
                                 dest, junk, 1)
         IN  [target |-> found.target, route |-> found.route,
              cache |-> compiled, ports |-> ports, lookup |-> TRUE,
              rebuilt |-> Recompiles(cache)]
    ELSE [target |-> End, route |-> <<>>, cache |-> cache, ports |-> ports,
          lookup |-> FALSE, rebuilt |-> FALSE]

\* The selector finding the source with m_ports[index] instead of find():
\* an index that is not registered gets a default-constructed port.
get_target_for_address_inserting(ports, cache, cre, index, dest, junk) ==
    LET inserted == [i \in DOMAIN ports \cup {index} |->
                        IF i \in DOMAIN ports THEN ports[i]
                        ELSE [group |-> 1, local_routes |-> <<>>]]
        compiled == routes(inserted, cache)
        found == ScanRoutes(inserted, compiled.table, cre, inserted[index].group,
                            dest, junk, 1)
    IN  [target |-> found.target, route |-> found.route,
         cache |-> compiled, ports |-> inserted, lookup |-> TRUE,
         rebuilt |-> Recompiles(cache)]

\* The selector without the test of line 115: the group of a source that is
\* not registered is whatever the read of end() produces.
get_target_for_address_unchecked(ports, cache, cre, index, dest, junk) ==
    LET compiled == routes(ports, cache)
        source_group == IF index \in DOMAIN ports THEN ports[index].group ELSE junk
        found == ScanRoutes(ports, compiled.table, cre, source_group, dest, junk, 1)
    IN  [target |-> found.target, route |-> found.route,
         cache |-> compiled, ports |-> ports, lookup |-> TRUE,
         rebuilt |-> Recompiles(cache)]

\* get_target_for<AddressType>(index, dest_addr): the selected port (or End),
\* the route that selected it, the route cache and the registry after the
\* call (m_ports is only searched, with find), whether the table was read
\* and whether reading it recompiled it.
get_target_for_address(ports, cache, cre, index, dest, junk) ==
    IF index \in DOMAIN ports
    THEN LET compiled == routes(ports, cache)
             found == ScanRoutes(ports, compiled.table, cre, ports[index].group,
                                 dest, junk, 1)
         IN  [target |-> found.target, route |-> found.route,
              cache |-> compiled, ports |-> ports, lookup |-> TRUE,
         rebuilt |-> Recompiles(cache)]
    ELSE [target |-> End, route |-> <<>>, cache |-> cache, ports |-> ports, lookup |-> FALSE,
          rebuilt |-> FALSE]

\* An IPv4 destination carried as the IPv4-mapped IPv6 address ::ffff:a.b.c.d.
V4Mapped(d) == <<0, 0, 0, 0, 0, 65535, d[1] * 256 + d[2], d[3] * 256 + d[4]>>

\* The selector without the clear_last_helper() calls of lines 88 and 100.
get_target_for_uncleared(ports, cache, cre, ipv4_filter, ipv6_filter, index, data, junk) ==
    LET f4 == ipv4_parse(ipv4_filter, data)
    IN  IF f4.set
        THEN LET r == get_target_for_address(ports, cache, cre, index,
                                             Address(4, f4.destination), junk)
             IN  [target |-> r.target, route |-> r.route, cache |-> r.cache,
                  ports |-> r.ports,
                  lookup |-> r.lookup, rebuilt |-> r.rebuilt, family |-> 4,
                  tried |-> <<4>>, destination |-> Address(4, f4.destination),
                  ipv4 |-> f4, ipv6 |-> ipv6_filter]
        ELSE LET f6 == ipv6_parse(ipv6_filter, data)
             IN  IF f6.set
                 THEN LET r == get_target_for_address(ports, cache, cre, index,
                                                      Address(6, f6.destination), junk)
                      IN  [target |-> r.target, route |-> r.route, cache |-> r.cache,
                  ports |-> r.ports,
                           lookup |-> r.lookup, rebuilt |-> r.rebuilt, family |-> 6,
                           tried |-> <<4, 6>>, destination |-> Address(6, f6.destination),
                           ipv4 |-> f4, ipv6 |-> f6]
                 ELSE [target |-> End, route |-> <<>>, cache |-> cache, ports |-> ports,
                       lookup |-> FALSE, rebuilt |-> FALSE, family |-> 0,
                       tried |-> <<4, 6>>, destination |-> <<>>,
                       ipv4 |-> f4, ipv6 |-> f6]

\* The selector running the IPv6 parser first and the IPv4 parser after it.
get_target_for_ipv6_first(ports, cache, cre, ipv4_filter, ipv6_filter, index, data, junk) ==
    LET f6 == ipv6_parse(ipv6_filter, data)
    IN  IF f6.set
        THEN LET r == get_target_for_address(ports, cache, cre, index,
                                             Address(6, f6.destination), junk)
             IN  [target |-> r.target, route |-> r.route, cache |-> r.cache,
                  ports |-> r.ports,
                  lookup |-> r.lookup, rebuilt |-> r.rebuilt, family |-> 6,
                  tried |-> <<6>>, destination |-> Address(6, f6.destination),
                  ipv4 |-> ipv4_filter, ipv6 |-> NoHelper]
        ELSE LET f4 == ipv4_parse(ipv4_filter, data)
             IN  IF f4.set
                 THEN LET r == get_target_for_address(ports, cache, cre, index,
                                                      Address(4, f4.destination), junk)
                      IN  [target |-> r.target, route |-> r.route, cache |-> r.cache,
                  ports |-> r.ports,
                           lookup |-> r.lookup, rebuilt |-> r.rebuilt, family |-> 4,
                           tried |-> <<6, 4>>, destination |-> Address(4, f4.destination),
                           ipv4 |-> NoHelper, ipv6 |-> f6]
                 ELSE [target |-> End, route |-> <<>>, cache |-> cache, ports |-> ports,
                       lookup |-> FALSE, rebuilt |-> FALSE, family |-> 0,
                       tried |-> <<6, 4>>, destination |-> <<>>,
                       ipv4 |-> f4, ipv6 |-> f6]

\* The selector resolving an IPv4 destination as an IPv6 address.
get_target_for_mapped(ports, cache, cre, ipv4_filter, ipv6_filter, index, data, junk) ==
    LET f4 == ipv4_parse(ipv4_filter, data)
    IN  IF f4.set
        THEN LET r == get_target_for_address(ports, cache, cre, index,
                                             Address(6, V4Mapped(f4.destination)), junk)
             IN  [target |-> r.target, route |-> r.route, cache |-> r.cache,
                  ports |-> r.ports,
                  lookup |-> r.lookup, rebuilt |-> r.rebuilt, family |-> 4,
                  tried |-> <<4>>, destination |-> Address(6, V4Mapped(f4.destination)),
                  ipv4 |-> NoHelper, ipv6 |-> ipv6_filter]
        ELSE LET f6 == ipv6_parse(ipv6_filter, data)
             IN  IF f6.set
                 THEN LET r == get_target_for_address(ports, cache, cre, index,
                                                      Address(6, f6.destination), junk)
                      IN  [target |-> r.target, route |-> r.route, cache |-> r.cache,
                  ports |-> r.ports,
                           lookup |-> r.lookup, rebuilt |-> r.rebuilt, family |-> 6,
                           tried |-> <<4, 6>>, destination |-> Address(6, f6.destination),
                           ipv4 |-> f4, ipv6 |-> NoHelper]
                 ELSE [target |-> End, route |-> <<>>, cache |-> cache, ports |-> ports,
                       lookup |-> FALSE, rebuilt |-> FALSE, family |-> 0,
                       tried |-> <<4, 6>>, destination |-> <<>>,
                       ipv4 |-> f4, ipv6 |-> f6]

\* get_target_for(index, data): IPv4 first, then IPv6, else no target.  The
\* result carries the state the call leaves in both filters and the cache,
\* the parsers it ran (in order) and the destination it resolved.
get_target_for(ports, cache, cre, ipv4_filter, ipv6_filter, index, data, junk) ==
    LET f4 == ipv4_parse(ipv4_filter, data)
    IN  IF f4.set
        THEN LET r == get_target_for_address(ports, cache, cre, index,
                                             Address(4, f4.destination), junk)
             IN  [target |-> r.target, route |-> r.route, cache |-> r.cache,
                  ports |-> r.ports,
                  lookup |-> r.lookup, rebuilt |-> r.rebuilt, family |-> 4,
                  tried |-> <<4>>, destination |-> Address(4, f4.destination),
                  ipv4 |-> NoHelper, ipv6 |-> ipv6_filter]
        ELSE LET f6 == ipv6_parse(ipv6_filter, data)
             IN  IF f6.set
                 THEN LET r == get_target_for_address(ports, cache, cre, index,
                                                      Address(6, f6.destination), junk)
                      IN  [target |-> r.target, route |-> r.route, cache |-> r.cache,
                  ports |-> r.ports,
                           lookup |-> r.lookup, rebuilt |-> r.rebuilt, family |-> 6,
                           tried |-> <<4, 6>>, destination |-> Address(6, f6.destination),
                           ipv4 |-> f4, ipv6 |-> NoHelper]
                 ELSE [target |-> End, route |-> <<>>, cache |-> cache, ports |-> ports,
                       lookup |-> FALSE, rebuilt |-> FALSE, family |-> 0,
                       tried |-> <<4, 6>>, destination |-> <<>>,
                       ipv4 |-> f4, ipv6 |-> f6]

\* The dispatch handing the frame to the selected port and to port 1 as well.
ForwardFanOut(log, port_entry, write) ==
    IF port_entry # End
    THEN Append(Append(log, write), [write EXCEPT !.port = 1])
    ELSE log

\* The dispatch returning a frame that has no target to the port it came from.
ForwardToSource(log, port_entry, write) ==
    IF port_entry # End THEN Append(log, write)
    ELSE Append(log, [write EXCEPT !.port = write.index])

\* The dispatch handing every port the handler of the first call.
ForwardFirstHandler(log, port_entry, write) ==
    IF port_entry # End THEN Append(log, [write EXCEPT !.handler = 1]) ELSE log

\* The dispatch writing twice to the selected port.
ForwardTwice(log, port_entry, write) ==
    IF port_entry # End THEN Append(Append(log, write), write) ELSE log

\* The dispatch without the test of line 72.
ForwardUnchecked(log, port_entry, write) == Append(log, write)

\* The dispatch handing the newest write to the port ahead of the earlier ones.
ForwardFirst(log, port_entry, write) ==
    IF port_entry # End THEN <<write>> \o log ELSE log

\* router::async_write, lines 72-75: the write is handed to the selected
\* port, and to no port when the selector returned end().
Forward(log, port_entry, write) ==
    IF port_entry # End THEN Append(log, write) ELSE log

(***************************************************************************)
(* State.                                                                  *)
(***************************************************************************)
VARIABLES
    m_ports,           \* the port registry: index -> port
    m_routes,          \* the route cache (boost::optional)
    m_configuration,   \* the routing configuration
    m_ipv4_filter,     \* last helper of the IPv4 filter
    m_ipv6_filter,     \* last helper of the IPv6 filter
    last,              \* the most recent selector call since the last change
                       \* of registry or configuration: <<>> or <<record>>
    calls,             \* number of router::async_write calls made
    invocations,       \* port writes invoked by the router, in order
    done,              \* positions of invocations whose write completed
    outcome,           \* call -> the port selected for it (or End), the
                       \* number of invocations of its handler and the
                       \* error codes the handler received
    results,           \* completed write -> the error code its port reported
    enumerated         \* the most recent posix_tap_adapter::enumerate call:
                       \* <<>> or <<record>>

vars == <<m_ports, m_routes, m_configuration, m_ipv4_filter, m_ipv6_filter,
          last, calls, invocations, done, outcome, results, enumerated>>

router_vars == <<m_ports, m_routes, m_configuration, m_ipv4_filter, m_ipv6_filter>>
io_vars == <<calls, invocations, done, outcome, results>>

\* The error codes a port's write completes with.
Success == "success"
Results == {Success, "operation_aborted"}

EmptyPorts == [i \in {} |-> [group |-> 1, local_routes |-> <<>>]]

Init ==
    /\ m_ports = EmptyPorts
    /\ m_routes = NoRoutes
    /\ m_configuration = [client_routing_enabled |-> FALSE]
    /\ m_ipv4_filter = NoHelper
    /\ m_ipv6_filter = NoHelper
    /\ last = <<>>
    /\ calls = 0
    /\ invocations = <<>>
    /\ done = {}
    /\ outcome = [c \in {} |-> [target |-> End, handled |-> 0, received |-> <<>>]]
    /\ results = [k \in {} |-> Success]
    /\ enumerated = <<>>

(***************************************************************************)
(* Registry and configuration operations (router.hpp).                     *)
(***************************************************************************)
RegisterPort(index, port) ==
    /\ index \notin DOMAIN m_ports
    /\ m_ports' = [i \in DOMAIN m_ports \cup {index} |->
                      IF i = index THEN port ELSE m_ports[i]]
    /\ m_routes' = NoRoutes
    /\ last' = <<>>
    /\ UNCHANGED <<m_configuration, m_ipv4_filter, m_ipv6_filter>>
    /\ UNCHANGED io_vars
    /\ UNCHANGED enumerated

UnregisterPort(index) ==
    /\ index \in DOMAIN m_ports
    /\ m_ports' = [i \in DOMAIN m_ports \ {index} |-> m_ports[i]]
    /\ m_routes' = NoRoutes
    /\ last' = <<>>
    /\ UNCHANGED <<m_configuration, m_ipv4_filter, m_ipv6_filter>>
    /\ UNCHANGED io_vars
    /\ UNCHANGED enumerated

SetLocalRoutes(index, local_routes) ==
    /\ index \in DOMAIN m_ports
    /\ m_ports' = [m_ports EXCEPT ![index].local_routes = local_routes]
    /\ m_routes' = NoRoutes
    /\ last' = <<>>
    /\ UNCHANGED <<m_configuration, m_ipv4_filter, m_ipv6_filter>>
    /\ UNCHANGED io_vars
    /\ UNCHANGED enumerated

SetConfiguration(cre) ==
    /\ m_configuration' = [client_routing_enabled |-> cre]
    /\ last' = <<>>
    /\ UNCHANGED <<m_ports, m_routes, m_ipv4_filter, m_ipv6_filter>>
    /\ UNCHANGED io_vars
    /\ UNCHANGED enumerated

(***************************************************************************)
(* The selector and the dispatch.                                          *)
(***************************************************************************)
\* Whether the cached table holds an entry of a port that is not registered.
StaleEntry ==
    \E k \in 1..Len(m_routes.table) : m_routes.table[k][2] \notin DOMAIN m_ports

Observation(index, frame, r, call) ==
    [index |-> index, frame |-> frame, call |-> call,
     client_routing_enabled |-> m_configuration.client_routing_enabled,
     target |-> r.target, route |-> r.route, lookup |-> r.lookup,
     family |-> r.family, tried |-> r.tried, destination |-> r.destination,
     rebuilt |-> r.rebuilt]

\* router::get_target_for(index, data).
GetTargetFor(index, frame) ==
    \E junk \in IF StaleEntry THEN JunkGroups ELSE {0} :
        \E r \in { get_target_for(m_ports, m_routes,
                                   m_configuration.client_routing_enabled,
                                   m_ipv4_filter, m_ipv6_filter, index,
                                   FrameTable[frame], junk) } :
            /\ m_routes' = r.cache
            /\ m_ipv4_filter' = r.ipv4
            /\ m_ipv6_filter' = r.ipv6
            /\ last' = <<Observation(index, frame, r, 0)>>
            /\ m_ports' = r.ports
            /\ UNCHANGED m_configuration
            /\ UNCHANGED <<io_vars, enumerated>>
    /\ UNCHANGED enumerated

\* router::async_write(index, data, handler); the handler of call c is c.
AsyncWrite(index, frame) ==
    /\ calls < MaxCalls
    /\ \E junk \in IF StaleEntry THEN JunkGroups ELSE {0} :
        \E r \in { get_target_for(m_ports, m_routes,
                                   m_configuration.client_routing_enabled,
                                   m_ipv4_filter, m_ipv6_filter, index,
                                   FrameTable[frame], junk) } :
        LET call == calls + 1
        IN  /\ m_routes' = r.cache
            /\ m_ipv4_filter' = r.ipv4
            /\ m_ipv6_filter' = r.ipv6
            /\ last' = <<Observation(index, frame, r, call)>>
            /\ calls' = call
            /\ invocations' =
                  Forward(invocations, r.target,
                          [call |-> call, index |-> index, port |-> r.target,
                           registered |-> r.target \in DOMAIN m_ports,
                           handler |-> call, data |-> frame])
            /\ outcome' = [c \in 1..call |->
                              IF c = call
                              THEN [target |-> r.target, handled |-> 0,
                                    received |-> <<>>]
                              ELSE outcome[c]]
            /\ m_ports' = r.ports
            /\ UNCHANGED <<m_configuration, done, results, enumerated>>

\* The write at position k of the log completes with error code ec: the
\* port invokes the handler it was given, once, with ec.  A port completes
\* its writes in order.
CompleteWith(k, ec) ==
    /\ k \in 1..Len(invocations)
    /\ k \notin done
    /\ \A j \in 1..(k - 1) :
          invocations[j].port = invocations[k].port => j \in done
    /\ done' = done \cup {k}
    /\ results' = [j \in done \cup {k} |-> IF j = k THEN ec ELSE results[j]]
    /\ outcome' = [outcome EXCEPT ![invocations[k].handler] =
                       [@ EXCEPT !.handled = @ + 1,
                                 !.received = Append(@, ec)]]
    /\ last' = last
    /\ UNCHANGED router_vars
    /\ UNCHANGED <<calls, invocations, enumerated>>

\* A write that completes without error.
Complete(k) == CompleteWith(k, Success)

(***************************************************************************)
(* Specifications.                                                         *)
(***************************************************************************)
\* The selector over every registry the inputs can build.
Next ==
    \/ \E index \in PortIndices, port \in PortType : RegisterPort(index, port)
    \/ \E index \in PortIndices : UnregisterPort(index)
    \/ \E index \in PortIndices, r \in RouteChoices : SetLocalRoutes(index, r)
    \/ \E cre \in BOOLEAN : SetConfiguration(cre)
    \/ \E index \in PortIndices, frame \in Frames : GetTargetFor(index, frame)

Spec == Init /\ [][Next]_vars

\* The ports the dispatch specification registers: two ports of group 1 and
\* the others of group 2.
CataloguePort(index) ==
    [group |-> IF index <= 2 THEN 1 ELSE 2,
     local_routes |-> IF index = 1 THEN <<Net10_0_0>>
                      ELSE IF index = 2 THEN <<Net10_0_1>>
                      ELSE <<Net10_8>>]

\* The dispatch specification submits the packet to 10.0.1.5 and the empty
\* buffer.
FramesIO == {2, 5}

\* The dispatch, its port writes and their completions.
NextIO ==
    \/ \E index \in PortIndices : RegisterPort(index, CataloguePort(index))
    \/ \E index \in PortIndices : UnregisterPort(index)
    \/ \E cre \in BOOLEAN : SetConfiguration(cre)
    \/ \E index \in PortIndices, frame \in FramesIO : AsyncWrite(index, frame)
    \/ \E k \in 1..MaxCalls : Complete(k)

SpecIO == Init /\ [][NextIO]_vars

\* The catalogue registry under writes whose ports report any error code.
NextErr ==
    \/ \E index \in PortIndices : RegisterPort(index, CataloguePort(index))
    \/ \E index \in PortIndices : UnregisterPort(index)
    \/ \E index \in PortIndices, frame \in FramesIO : AsyncWrite(index, frame)
    \/ \E k \in 1..MaxCalls, ec \in Results : CompleteWith(k, ec)

SpecErr == Init /\ [][NextErr]_vars

\* The selector as a function of the router's state: a registry of catalogue
\* ports and a valid cache compiled from a registry that held these ports and
\* possibly others, under either configuration.
InitStale ==
    \E live \in SUBSET PortIndices, compiled \in SUBSET PortIndices :
        /\ live \subseteq compiled
        /\ m_ports = [i \in live |-> CataloguePort(i)]
        /\ m_routes = Compiled(CompileRoutes([i \in compiled |-> CataloguePort(i)]))
        /\ m_configuration \in [client_routing_enabled : BOOLEAN]
        /\ m_ipv4_filter = NoHelper
        /\ m_ipv6_filter = NoHelper
        /\ last = <<>>
        /\ calls = 0
        /\ invocations = <<>>
        /\ done = {}
        /\ outcome = [c \in {} |-> [target |-> End, handled |-> 0, received |-> <<>>]]
        /\ results = [k \in {} |-> Success]
        /\ enumerated = <<>>

NextStale ==
    \E index \in PortIndices, frame \in Frames : GetTargetFor(index, frame)

SpecStale == InitStale /\ [][NextStale]_vars

\* routes() as a function of the registry: ports whose route lists may name
\* a prefix more than once, the cache still to be compiled.
RepeatedRouteChoices ==
    { <<Net10_8>>, <<Net10_0_1, Net10_0_1>>, <<Net10_0_1, Net10_8, Net10_0_1>> }

InitRoutes ==
    \E registered \in SUBSET PortIndices :
        /\ m_ports \in [registered -> [group : Groups,
                                       local_routes : RepeatedRouteChoices]]
        /\ m_routes = NoRoutes
        /\ m_configuration \in [client_routing_enabled : BOOLEAN]
        /\ m_ipv4_filter = NoHelper
        /\ m_ipv6_filter = NoHelper
        /\ last = <<>>
        /\ calls = 0
        /\ invocations = <<>>
        /\ done = {}
        /\ outcome = [c \in {} |-> [target |-> End, handled |-> 0, received |-> <<>>]]
        /\ results = [k \in {} |-> Success]
        /\ enumerated = <<>>

NextRoutes ==
    \E index \in PortIndices, frame \in Frames : GetTargetFor(index, frame)

SpecRoutes == InitRoutes /\ [][NextRoutes]_vars

(***************************************************************************)
(* posix_tap_adapter::enumerate (src/posix/posix_tap_adapter.cpp).  An     *)
(* interface name is the sequence of its characters.                       *)
(***************************************************************************)
\* Longest list getifaddrs() returns.
MaxInterfaces == 3

\* tap_adapter_layer.
Layers == {"ethernet", "ip"}

InterfaceNames ==
    { <<"t", "a", "p", "0">>, <<"t", "a", "p">>, <<"t", "u", "n", "0">>,
      <<"t", "u", "n">>, <<"t", "a">>, <<"e", "t", "h", "0">> }

\* The lists of entries getifaddrs() yields: an interface has one entry for
\* each of its addresses, so a name may occur more than once.
InterfaceLists ==
    UNION { [1..n -> InterfaceNames] : n \in 0..MaxInterfaces }

\* std::string::substr(pos, count), pos counted from 0: at most count
\* characters, fewer when the string ends before.
substr(name, pos, count) ==
    SubSeq(name, pos + 1, Min(pos + count, Len(name)))

\* result[name] = value on a std::map.
MapAssign(result, name, value) ==
    [n \in DOMAIN result \cup {name} |-> IF n = name THEN value ELSE result[n]]

\* The switch of lines 63-79 for one interface: no break closes the
\* ethernet case, so control falls through into the ip case.
SwitchLayer(layer, name, result) ==
    LET after_ethernet ==
            IF layer = "ethernet" /\ substr(name, 0, 3) = <<"t", "a", "p">>
            THEN MapAssign(result, name, name) ELSE result
    IN  IF layer \in {"ethernet", "ip"} /\ substr(name, 0, 3) = <<"t", "u", "n">>
        THEN MapAssign(after_ethernet, name, name) ELSE after_ethernet

\* The loop of line 59, from entry i of the list on.
RECURSIVE EnumerateFrom(_, _, _, _)
EnumerateFrom(layer, ifaddrs, i, result) ==
    IF i > Len(ifaddrs) THEN result
    ELSE EnumerateFrom(layer, ifaddrs, i + 1, SwitchLayer(layer, ifaddrs[i], result))

\* The empty std::map of line 51.
EmptyMap == [n \in {} |-> <<>>]

\* enumerate(_layer) when getifaddrs() succeeds (ok) with the list ifaddrs,
\* or fails.
enumerate(layer, ok, ifaddrs) ==
    IF ok THEN EnumerateFrom(layer, ifaddrs, 1, EmptyMap) ELSE EmptyMap

Enumerate(layer, ok, ifaddrs) ==
    /\ enumerated' = <<[layer |-> layer, ok |-> ok, ifaddrs |-> ifaddrs,
                        result |-> enumerate(layer, ok, ifaddrs)]>>
    /\ UNCHANGED <<router_vars, last, io_vars>>

NextTap ==
    \E layer \in Layers, ok \in BOOLEAN, ifaddrs \in InterfaceLists :
        Enumerate(layer, ok, ifaddrs)

SpecTap == Init /\ [][NextTap]_vars

\* Every port write completes: the port contract of an event loop that runs.
FairSpecIO == SpecIO /\ \A k \in 1..MaxCalls : WF_vars(Complete(k))

(***************************************************************************)
(* Definitions the properties share.                                       *)
(***************************************************************************)
HasLast == Len(last) = 1
Last == last[1]

\* The destination a frame carries, by the rules of section 4.1: IPv4 when
\* the IPv4 parser accepts it, else IPv6 when the IPv6 parser does.
FrameFamily(data) ==
    IF IPv4Parses(data) THEN 4 ELSE IF IPv6Parses(data) THEN 6 ELSE 0

FrameDestination(data) ==
    IF IPv4Parses(data)
    THEN Address(4, ipv4_parse(NoHelper, data).destination)
    ELSE Address(6, ipv6_parse(NoHelper, data).destination)

\* The flattened union of the registered ports' local routes, each tagged
\* by its owner.
FlatRoutes(ports) ==
    UNION { { <<ports[i].local_routes[j], i>> : j \in 1..Len(ports[i].local_routes) } :
            i \in DOMAIN ports }

TableEntries(table) == { table[k] : k \in 1..Len(table) }

Lowest(S) == CHOOSE x \in S : \A y \in S : x <= y

\* The port writes the router invoked for call c.
WritesOf(c) == { k \in 1..Len(invocations) : invocations[k].call = c }

(***************************************************************************)
(* C1.  No self-route: whenever the selector resolves a frame submitted    *)
(* with source index s to a destination port d, d differs from s.          *)
(***************************************************************************)
NoSelfRoute ==
    HasLast => (Last.target # End => Last.target # Last.index)

(***************************************************************************)
(* C2.  Policy gate: with client routing disabled the router never invokes *)
(* the write of a port whose group equals the source port's group; a       *)
(* matching candidate of another group is accepted whatever the flag, and  *)
(* with client routing enabled every matching candidate is accepted: the   *)
(* frame goes to the first matching route whose owner passes, and is       *)
(* dropped only when there is none.                                        *)
(***************************************************************************)
\* Positions of the table whose route contains dest and whose owner passes
\* the gate for a frame of the source port index.
Acceptable(table, index, dest, cre) ==
    { k \in 1..Len(table) :
        /\ has_address(table[k][1], dest)
        /\ table[k][2] \in DOMAIN m_ports
        /\ (cre \/ m_ports[table[k][2]].group # m_ports[index].group) }

PolicyGateRespected ==
    (HasLast /\ Last.call > 0 /\ Last.lookup) =>
        LET cre == m_configuration.client_routing_enabled
            ok == Acceptable(m_routes.table, Last.index,
                             FrameDestination(FrameTable[Last.frame]), cre)
        IN  /\ \A k \in WritesOf(Last.call) :
                  \/ cre
                  \/ m_ports[invocations[k].port].group # m_ports[Last.index].group
            /\ ok = {} => WritesOf(Last.call) = {}
            /\ ok # {} =>
                  /\ WritesOf(Last.call) # {}
                  /\ \A k \in WritesOf(Last.call) :
                        invocations[k].port = m_routes.table[Lowest(ok)][2]

\* Reached: a frame delivered across groups with client routing disabled
\* after a candidate of the source's own group was refused.
PolicyGateWitness ==
    /\ HasLast /\ Last.call > 0 /\ Last.target # End
    /\ ~ m_configuration.client_routing_enabled
    /\ m_ports[Last.target].group # m_ports[Last.index].group
    /\ \E k \in 1..Len(m_routes.table) :
          /\ has_address(m_routes.table[k][1], FrameDestination(FrameTable[Last.frame]))
          /\ m_ports[m_routes.table[k][2]].group = m_ports[Last.index].group

(***************************************************************************)
(* C3.  Route-table coherence: in every state, the table the next lookup   *)
(* observes holds exactly the (local route, owner) pairs of the registered *)
(* ports, and the table a lookup has just read is that table.              *)
(***************************************************************************)
RouteTableCoherence ==
    /\ TableEntries(routes(m_ports, m_routes).table) = FlatRoutes(m_ports)
    /\ (HasLast /\ Last.lookup) =>
          /\ m_routes.valid
          /\ TableEntries(m_routes.table) = FlatRoutes(m_ports)

\* Reached: a lookup has read a table of three routes of two ports while a
\* third index is not registered.
RouteTableCoherenceWitness ==
    /\ HasLast /\ Last.lookup
    /\ Cardinality(DOMAIN m_ports) = 2
    /\ Len(m_routes.table) = 3

(***************************************************************************)
(* C4.  Handler exactly once: the handler of a call is never invoked more  *)
(* than once; a call that dropped its frame has no port write and no       *)
(* handler invocation, ever; a call that selected a destination eventually *)
(* has its handler invoked exactly once.                                   *)
(***************************************************************************)
HandlerCounts ==
    \A c \in DOMAIN outcome :
        /\ outcome[c].handled <= 1
        /\ outcome[c].target = End =>
              (outcome[c].handled = 0 /\ WritesOf(c) = {})
        /\ outcome[c].target # End => WritesOf(c) # {}

HandlerExactlyOnce ==
    /\ []HandlerCounts
    /\ \A c \in 1..MaxCalls :
          (c \in DOMAIN outcome /\ outcome[c].target # End)
              ~> (c \in DOMAIN outcome /\ outcome[c].handled = 1)

\* Reached: one call delivered and its handler invoked, another call dropped.
HandlerExactlyOnceWitness ==
    \E c, d \in DOMAIN outcome :
        /\ outcome[c].target # End /\ outcome[c].handled = 1
        /\ outcome[d].target = End /\ outcome[d].handled = 0

(***************************************************************************)
(* C5.  Policy monotonicity: a frame the selector delivers with client     *)
(* routing disabled is delivered (to some port) with client routing        *)
(* enabled and everything else equal; a frame dropped with client routing  *)
(* enabled is dropped with it disabled.                                    *)
(***************************************************************************)
TargetWith(cre) ==
    get_target_for(m_ports, m_routes, cre, m_ipv4_filter, m_ipv6_filter,
                   Last.index, FrameTable[Last.frame], 0).target

PolicyMonotone ==
    HasLast =>
        /\ (~ Last.client_routing_enabled /\ Last.target # End) => TargetWith(TRUE) # End
        /\ (Last.client_routing_enabled /\ Last.target = End) => TargetWith(FALSE) = End

\* Reached: a frame delivered with client routing disabled that the enabled
\* flag delivers to another port.
PolicyMonotoneWitness ==
    /\ HasLast /\ ~ Last.client_routing_enabled /\ Last.target # End
    /\ TargetWith(TRUE) # End
    /\ TargetWith(TRUE) # Last.target

(***************************************************************************)
(* C6.  Most-specific-first: the route that selects the destination is at  *)
(* least as long as every route that contains the destination and whose    *)
(* owner passes the policy gate.  (Stated for deliveries to another port   *)
(* than the source and for competing routes of other ports than the        *)
(* source.)                                                                *)
(***************************************************************************)
MostSpecificFirst ==
    (HasLast /\ Last.target # End /\ Last.target # Last.index) =>
        \A k \in Acceptable(m_routes.table, Last.index,
                            FrameDestination(FrameTable[Last.frame]),
                            Last.client_routing_enabled) :
            m_routes.table[k][2] # Last.index =>
                m_routes.table[k][1].len <= Last.route[1][1].len

(***************************************************************************)
(* C7.  Family disjointness: a frame that parses as IPv4 is resolved as    *)
(* IPv4 and the route that selects its destination is an IPv4 network; a   *)
(* frame that parses as IPv6 only is resolved as IPv6 by an IPv6 network;  *)
(* a frame that parses as neither selects no route.                        *)
(***************************************************************************)
FamilyDisjoint ==
    HasLast =>
        LET fam == FrameFamily(FrameTable[Last.frame])
        IN  /\ Last.family = fam
            /\ Last.route # <<>> => (fam # 0 /\ Last.route[1][1].fam = fam)

\* Reached: an IPv4 frame delivered while the table also holds an IPv6
\* network that contains every address.
FamilyDisjointWitness ==
    /\ HasLast /\ Last.family = 4 /\ Last.target # End
    /\ \E k \in 1..Len(m_routes.table) : m_routes.table[k][1] = Net6Any

(***************************************************************************)
(* C8.  Unknown source port: a call whose source index is not registered   *)
(* selects no port, invokes no port write and never has its handler        *)
(* invoked.                                                                *)
(***************************************************************************)
UnknownSourceDropped ==
    (HasLast /\ Last.call > 0 /\ Last.index \notin DOMAIN m_ports) =>
        /\ Last.target = End
        /\ WritesOf(Last.call) = {}
        /\ outcome[Last.call].handled = 0

\* Reached: a call from an index that is not registered, with client
\* routing enabled and a frame for which a registered port has a route.
UnknownSourceWitness ==
    /\ HasLast /\ Last.call > 0 /\ Last.index \notin DOMAIN m_ports
    /\ m_configuration.client_routing_enabled
    /\ FrameFamily(FrameTable[Last.frame]) = 4
    /\ \E e \in FlatRoutes(m_ports) :
          has_address(e[1], FrameDestination(FrameTable[Last.frame]))

(***************************************************************************)
(* C9.  No write to a removed port: every port write the router invokes is *)
(* to a port that is registered at that moment.                            *)
(***************************************************************************)
NoWriteToRemovedPort ==
    \A k \in 1..Len(invocations) : invocations[k].registered

\* Reached: a port was written to and then removed, and a later call of the
\* same source with a frame to the same network went elsewhere or nowhere.
NoWriteToRemovedPortWitness ==
    \E k \in 1..Len(invocations) :
        /\ invocations[k].port \notin DOMAIN m_ports
        /\ HasLast /\ Last.call > invocations[k].call
        /\ Last.index = invocations[k].index
        /\ FrameFamily(FrameTable[Last.frame]) = 4
        /\ Last.lookup

(***************************************************************************)
(* C10.  Per-destination ordering: the writes the router invokes for the   *)
(* same source index on the same port are in the order of their calls.     *)
(***************************************************************************)
PerDestinationOrder ==
    \A j, k \in 1..Len(invocations) :
        (/\ j < k
         /\ invocations[j].index = invocations[k].index
         /\ invocations[j].port = invocations[k].port)
            => invocations[j].call < invocations[k].call

\* Reached: two writes of one source on one port, the first completed and
\* the second still in flight.
PerDestinationOrderWitness ==
    \E j, k \in 1..Len(invocations) :
        /\ j < k
        /\ invocations[j].index = invocations[k].index
        /\ invocations[j].port = invocations[k].port
        /\ j \in done /\ k \notin done

(***************************************************************************)
(* C11.  Idempotent invalidation: every registry change leaves the cache   *)
(* in the same invalidated state however many changes precede it; the      *)
(* first lookup that follows recompiles the table once and leaves it       *)
(* valid, and a lookup that follows a lookup with no registry change in    *)
(* between does not recompile.                                             *)
(***************************************************************************)
IdempotentInvalidation ==
    [][ /\ (m_ports' # m_ports) => (m_routes' = NoRoutes)
        /\ (Len(last') = 1 /\ last'[1].lookup) =>
              /\ last'[1].rebuilt <=> (m_routes = NoRoutes)
              /\ m_routes'.valid
              /\ (HasLast /\ Last.lookup) => ~ last'[1].rebuilt ]_vars

\* Reached: a lookup recompiled a table of at least two routes (so after at
\* least one registry change) and no lookup has recompiled since.
IdempotentInvalidationWitness ==
    /\ HasLast /\ Last.lookup /\ Last.rebuilt
    /\ m_routes.valid /\ Len(m_routes.table) >= 2

(***************************************************************************)
(* C12.  Configuration swap: replacing the configuration leaves the route  *)
(* cache as it is, and every lookup applies the client_routing_enabled     *)
(* value in force when it runs: its target is the owner of the first       *)
(* matching route that passes the gate under that value.                   *)
(***************************************************************************)
ConfigurationSwap ==
    [][ /\ (m_configuration' # m_configuration) => (m_routes' = m_routes)
        /\ (Len(last') = 1 /\ last'[1].lookup) =>
              LET cre == m_configuration.client_routing_enabled
                  ok == Acceptable(m_routes'.table, last'[1].index,
                                   last'[1].destination, cre)
              IN  /\ last'[1].client_routing_enabled = cre
                  /\ last'[1].target =
                        IF ok = {} THEN End ELSE m_routes'.table[Lowest(ok)][2] ]_vars

\* Reached: with client routing switched on, a lookup that did not recompile
\* the table resolved a frame to a port of the source's own group.
ConfigurationSwapWitness ==
    /\ HasLast /\ Last.lookup /\ ~ Last.rebuilt
    /\ m_configuration.client_routing_enabled
    /\ Last.target # End
    /\ m_ports[Last.target].group = m_ports[Last.index].group

(***************************************************************************)
(* C13.  Write errors propagate verbatim: the handler of a call receives   *)
(* exactly the error codes the port reported for the write the router      *)
(* handed it for that call, success or failure, and nothing when the       *)
(* router invoked no write or the write is still in flight.                *)
(***************************************************************************)
\* The error codes of the completed writes of the positions in S, in order.
RECURSIVE ReportedBy(_, _)
ReportedBy(S, k) ==
    IF k > Len(invocations) THEN <<>>
    ELSE (IF k \in S /\ k \in done THEN <<results[k]>> ELSE <<>>)
             \o ReportedBy(S, k + 1)

ErrorsVerbatim ==
    \A c \in DOMAIN outcome :
        outcome[c].received = ReportedBy(WritesOf(c), 1)

\* Reached: one handler has received a failure and the handler of a call
\* that was dropped has received nothing.
ErrorsVerbatimWitness ==
    \E b, d \in DOMAIN outcome :
        /\ outcome[b].received = <<"operation_aborted">>
        /\ outcome[d].target = End /\ outcome[d].received = <<>>

(***************************************************************************)
(* C14.  Policy-denied candidates are skipped, not terminal: a lookup      *)
(* returns the owner of the first matching route, in table order, whose    *)
(* owner passes the gate, however many matching routes before it were      *)
(* refused, and no port only when no matching route's owner passes; routes *)
(* of the same prefix stand in the table in the order of their owners'     *)
(* indices.                                                                *)
(***************************************************************************)
DeniedCandidatesSkipped ==
    (HasLast /\ Last.lookup) =>
        LET table == m_routes.table
            ok == Acceptable(table, Last.index, Last.destination,
                             m_configuration.client_routing_enabled)
        IN  /\ ok = {} => (Last.target = End /\ Last.route = <<>>)
            /\ ok # {} => /\ Last.target = table[Lowest(ok)][2]
                          /\ Last.route = <<table[Lowest(ok)]>>
            /\ \A j, k \in 1..Len(table) :
                  (j < k /\ table[j][1] = table[k][1]) => table[j][2] <= table[k][2]

\* Reached: two ports own the same prefix, the one of the lower index was
\* refused by the gate and the frame went to the other.
DeniedCandidatesSkippedWitness ==
    /\ HasLast /\ Last.lookup /\ Last.target # End
    /\ \E j, k \in 1..Len(m_routes.table) :
          /\ j < k
          /\ m_routes.table[j][1] = m_routes.table[k][1]
          /\ has_address(m_routes.table[j][1], Last.destination)
          /\ m_routes.table[k][2] = Last.target
          /\ ~ PolicyGate(m_configuration.client_routing_enabled,
                          m_ports[Last.index].group,
                          m_ports[m_routes.table[j][2]].group)

RegisteredOwners(table) ==
    \A k \in 1..Len(table) : table[k][2] \in DOMAIN m_ports

EntriesRegistered ==
    /\ RegisteredOwners(m_routes.table)
    /\ RegisteredOwners(routes(m_ports, m_routes).table)
    /\ (HasLast /\ Last.lookup) =>
          /\ m_routes.valid
          /\ \A k \in 1..Len(Last.route) : Last.route[k][2] \in DOMAIN m_ports

\* Reached: a lookup recompiled and read a table while index 1 is free and
\* index 2 is registered.
EntriesRegisteredWitness ==
    /\ HasLast /\ Last.lookup /\ Last.rebuilt
    /\ 1 \notin DOMAIN m_ports
    /\ 2 \in DOMAIN m_ports
    /\ Len(m_routes.table) >= 1

(***************************************************************************)
(* C17.  Parser ordering: every call runs the IPv4 parser first and runs   *)
(* the IPv6 parser only when the IPv4 parser yields nothing; a frame the   *)
(* IPv4 parser accepts is resolved with its IPv4 destination, never an     *)
(* IPv6 one; when both parsers yield nothing (the empty buffer included)   *)
(* the call reads no table, selects no port and the dispatch writes to     *)
(* none.                                                                   *)
(***************************************************************************)
ParserOrdering ==
    HasLast =>
        LET data == FrameTable[Last.frame]
        IN  /\ Last.tried = IF IPv4Parses(data) THEN <<4>> ELSE <<4, 6>>
            /\ IPv4Parses(data) =>
                  /\ Last.family = 4
                  /\ Last.destination = FrameDestination(data)
                  /\ Last.destination.fam = 4
                  /\ \A k \in 1..Len(Last.route) : Last.route[k][1].fam = 4
            /\ (~ IPv4Parses(data) /\ IPv6Parses(data)) =>
                  /\ Last.family = 6
                  /\ Last.destination = FrameDestination(data)
                  /\ Last.destination.fam = 6
            /\ (~ IPv4Parses(data) /\ ~ IPv6Parses(data)) =>
                  /\ Last.family = 0
                  /\ ~ Last.lookup /\ ~ Last.rebuilt
                  /\ Last.target = End /\ Last.route = <<>>
                  /\ Forward(invocations, Last.target, Last) = invocations

\* Reached: the empty buffer of a registered source was dropped after both
\* parsers ran, while the table was still to be compiled.
ParserOrderingWitness ==
    /\ HasLast /\ Len(FrameTable[Last.frame]) = 0
    /\ Last.index \in DOMAIN m_ports
    /\ Last.tried = <<4, 6>>
    /\ Last.target = End
    /\ ~ m_routes.valid

(***************************************************************************)
(* C18.  Parser scratch state is reset between calls: in every state, so   *)
(* on entry to every selector call, neither filter holds a last helper,    *)
(* and the destination a call resolves is the one its own frame carries,   *)
(* none when its frame carries none.                                       *)
(***************************************************************************)
ScratchStateReset ==
    /\ m_ipv4_filter = NoHelper
    /\ m_ipv6_filter = NoHelper
    /\ HasLast =>
          LET data == FrameTable[Last.frame]
          IN  IF FrameFamily(data) = 0
              THEN Last.destination = <<>> /\ Last.family = 0
              ELSE /\ Last.destination = FrameDestination(data)
                   /\ Last.family = FrameFamily(data)

\* Reached: after a call whose frame parsed (the table it compiled is still
\* cached), a registered source's frame that carries no destination was
\* given none.
ScratchStateResetWitness ==
    /\ HasLast /\ Last.index \in DOMAIN m_ports
    /\ FrameFamily(FrameTable[Last.frame]) = 0
    /\ Last.destination = <<>>
    /\ m_routes.valid

(***************************************************************************)
(* C19.  Duplicate prefixes: in a compiled table, a prefix two registered  *)
(* ports advertise has an entry for each of them, the entries of equal     *)
(* prefixes standing in the order of their owners' indices, and a prefix   *)
(* one port advertises, however many times, has exactly one entry for      *)
(* that port.                                                              *)
(***************************************************************************)
DuplicatePrefixes ==
    m_routes.valid =>
        LET table == m_routes.table
        IN  /\ \A index \in DOMAIN m_ports :
                  \A j \in 1..Len(m_ports[index].local_routes) :
                      Cardinality({ k \in 1..Len(table) :
                          table[k] = <<m_ports[index].local_routes[j], index>> }) = 1
            /\ \A j, k \in 1..Len(table) :
                  (j < k /\ table[j][1] = table[k][1]) => table[j][2] <= table[k][2]

(***************************************************************************)
(* C20.  Lazy cache lifetime: a lookup made while the cache is valid does  *)
(* not recompile and leaves the cached table as it is; a lookup made while *)
(* the cache is invalidated recompiles it from the registry and leaves it  *)
(* valid; and whenever the cache changes, it either becomes empty or goes  *)
(* from empty to the whole table compiled from the registry: a valid       *)
(* table is never edited.                                                  *)
(***************************************************************************)
LazyCacheLifetime ==
    [][ /\ (Len(last') = 1 /\ last'[1].lookup /\ m_routes.valid) =>
              /\ ~ last'[1].rebuilt
              /\ m_routes' = m_routes
        /\ (Len(last') = 1 /\ last'[1].lookup /\ ~ m_routes.valid) =>
              /\ last'[1].rebuilt
              /\ m_routes'.valid
              /\ TableEntries(m_routes'.table) = FlatRoutes(m_ports)
        /\ (Len(last') = 1 /\ ~ last'[1].lookup) => m_routes' = m_routes
        /\ (m_routes' # m_routes) =>
              \/ m_routes' = NoRoutes
              \/ /\ m_routes = NoRoutes
                 /\ m_routes' = Compiled(CompileRoutes(m_ports')) ]_vars

\* Reached: with client routing off, a lookup found a valid table of three
\* routes, did not recompile it and selected no port.
LazyCacheLifetimeWitness ==
    /\ HasLast /\ Last.lookup /\ ~ Last.rebuilt
    /\ ~ m_configuration.client_routing_enabled
    /\ m_routes.valid /\ Len(m_routes.table) = 3
    /\ Last.target = End

(***************************************************************************)
(* C21.  Policy opacity: what the caller of router::async_write can        *)
(* observe of a frame dropped because no route matches and of a frame      *)
(* dropped because the gate refused every matching route is the same:      *)
(* no port write, no handler invocation, no error code, then and ever      *)
(* after.                                                                  *)
(***************************************************************************)
\* What the caller of call c can observe.
Observable(c) ==
    [writes |-> WritesOf(c), handled |-> outcome[c].handled,
     received |-> outcome[c].received]

NothingObservable == [writes |-> {}, handled |-> 0, received |-> <<>>]

\* Positions of the table whose route contains the last call's destination.
LastMatching ==
    { k \in 1..Len(m_routes.table) :
        has_address(m_routes.table[k][1], Last.destination) }

PolicyOpacity ==
    (HasLast /\ Last.call > 0 /\ Last.lookup /\ Last.target = End) =>
        /\ LastMatching = {} => Observable(Last.call) = NothingObservable
        /\ LastMatching # {} => Observable(Last.call) = NothingObservable

\* Reached: the second call was dropped because the gate refused its only
\* matching route, the first was dropped too, and a write of neither exists.
PolicyOpacityWitness ==
    /\ HasLast /\ Last.call = 2 /\ Last.lookup /\ Last.target = End
    /\ LastMatching # {}
    /\ outcome[1].target = End
    /\ invocations = <<>>

(***************************************************************************)
(* C22.  At most one destination per frame: a router::async_write call     *)
(* invokes at most one port write, on the port the selector returned, with *)
(* the caller's buffer and the caller's handler; it invokes none when the  *)
(* selector returned no port, and no port write is invoked outside a call. *)
(***************************************************************************)
OneDestinationPerFrame ==
    [][ /\ (calls' = calls) => (invocations' = invocations)
        /\ (calls' # calls) =>
              LET n == Len(invocations)
                  call == last'[1]
              IN  /\ calls' = calls + 1
                  /\ call.call = calls'
                  /\ SubSeq(invocations', 1, n) = invocations
                  /\ Len(invocations') = IF call.target = End THEN n ELSE n + 1
                  /\ (call.target # End) =>
                        /\ invocations'[n + 1].port = call.target
                        /\ invocations'[n + 1].data = call.frame
                        /\ invocations'[n + 1].handler = call.call
                        /\ invocations'[n + 1].index = call.index ]_vars

\* Reached: routes of two different ports contain the destination and pass
\* the gate, and the call invoked one write.
OneDestinationPerFrameWitness ==
    /\ HasLast /\ Last.call > 0 /\ Last.target # End
    /\ Cardinality(WritesOf(Last.call)) = 1
    /\ \E j, k \in Acceptable(m_routes.table, Last.index, Last.destination,
                              m_configuration.client_routing_enabled) :
          m_routes.table[j][2] # m_routes.table[k][2]

(***************************************************************************)
(* C23.  Frame effect of dispatch: a router::async_write call leaves the   *)
(* registered ports, their groups and local routes and the configuration   *)
(* as they were, delivered or dropped; of the router's state it changes    *)
(* at most the route cache, by compiling it when it was invalidated, and   *)
(* it leaves both filters without a helper; the writes and handlers of     *)
(* earlier calls are not touched.                                          *)
(***************************************************************************)
DispatchFrame ==
    [][ (calls' # calls) =>
            /\ m_ports' = m_ports
            /\ m_configuration' = m_configuration
            /\ \/ m_routes' = m_routes
               \/ /\ m_routes = NoRoutes
                  /\ m_routes' = Compiled(CompileRoutes(m_ports))
            /\ m_ipv4_filter' = NoHelper /\ m_ipv6_filter' = NoHelper
            /\ done' = done /\ results' = results
            /\ \A c \in DOMAIN outcome : outcome'[c] = outcome[c] ]_vars

\* Reached: the second call compiled the table and was delivered, after a
\* first call that was dropped.
DispatchFrameWitness ==
    /\ HasLast /\ Last.call = 2 /\ Last.rebuilt /\ Last.target # End
    /\ outcome[1].target = End
    /\ Len(invocations) = 1

(***************************************************************************)
(* C24.  Deterministic selection: the port a call selects (or the drop)    *)
(* is the one a router instance just constructed with the same registry    *)
(* and the same client_routing_enabled selects for the same source index   *)
(* and frame, whatever the order the ports were registered in, whatever    *)
(* frames were routed before and whether this call or an earlier one       *)
(* compiled the table.                                                     *)
(***************************************************************************)
\* The selection of an instance with this registry and configuration that
\* has routed no frame yet.
FreshSelection(ports, cre, index, frame) ==
    get_target_for(ports, NoRoutes, cre, NoHelper, NoHelper, index,
                   FrameTable[frame], 0)

DeterministicSelection ==
    HasLast =>
        LET fresh == FreshSelection(m_ports, m_configuration.client_routing_enabled,
                                    Last.index, Last.frame)
        IN  /\ Last.target = fresh.target
            /\ Last.route = fresh.route

\* Reached: a call that found the table compiled by an earlier call selected
\* the second of two ports whose routes contain the destination.
DeterministicSelectionWitness ==
    /\ HasLast /\ Last.lookup /\ ~ Last.rebuilt /\ Last.target # End
    /\ \E j \in 1..Len(m_routes.table) :
          /\ has_address(m_routes.table[j][1], Last.destination)
          /\ m_routes.table[j][2] # Last.target
          /\ <<m_routes.table[j]>> # Last.route
    /\ Cardinality(DOMAIN m_ports) = 3

(***************************************************************************)
(* C25.  posix_tap_adapter::enumerate filters by layer: for the ethernet   *)
(* layer the result holds exactly the listed interfaces whose name starts  *)
(* with "tap", for the ip layer exactly those whose name starts with       *)
(* "tun"; no "tun" name is in the result of the ethernet layer; every      *)
(* entry maps the name to itself.                                          *)
(***************************************************************************)
StartsWith(name, prefix) ==
    Len(name) >= Len(prefix) /\ SubSeq(name, 1, Len(prefix)) = prefix

EnumerateFiltersByLayer ==
    (Len(enumerated) = 1 /\ enumerated[1].ok) =>
        LET e == enumerated[1]
            listed == { e.ifaddrs[i] : i \in 1..Len(e.ifaddrs) }
            prefix == IF e.layer = "ethernet" THEN <<"t", "a", "p">>
                      ELSE <<"t", "u", "n">>
        IN  /\ DOMAIN e.result = { n \in listed : StartsWith(n, prefix) }
            /\ \A n \in DOMAIN e.result : e.result[n] = n
            /\ e.layer = "ethernet" =>
                  \A n \in DOMAIN e.result : ~ StartsWith(n, <<"t", "u", "n">>)

====
